---------------------------- MODULE Spec2Model ----------------------------
(***************************************************************************)
(* A model of src/editor.py, a PyQt6 source-code editor:                   *)
(*   - PythonSyntaxHighlighter.highlightBlock, the per-line highlighter    *)
(*     with its carried multi-line-string state, and the way the document  *)
(*     drives it after an edit;                                            *)
(*   - CodeEditor.lineNumberAreaWidth, the gutter margin;                  *)
(*   - PythonCodeEditor's file operations, unsaved-changes prompt and      *)
(*     one-shot execution through an external interpreter process.         *)
(* Offsets into a line are 0-based, as in the source; a line's text is a   *)
(* sequence of one-character strings, so text[p + 1] is the character at   *)
(* offset p.                                                               *)
(***************************************************************************)
EXTENDS Integers, Sequences, FiniteSets, TLC

VARIABLES
    \* --- PythonCodeEditor (the main window) ---
    text,               \* self.editor.toPlainText(), an abstract content
    modified,           \* self.editor.document().isModified()
    windowModified,     \* self.isWindowModified()
    current_file_path,  \* self.current_file_path (NoPath for None)
    disk,               \* the file system: path -> content, or NoFile
    output,             \* self.output_text_edit, a sequence of entries
    run_enabled,        \* self.run_action.isEnabled()
    proc,               \* self.process.state(): NotRunning, Starting, Running
    chunks,             \* output chunks the running process has still to emit
    closed,             \* the close event was accepted
    last,               \* history: what the last handler did
    \* --- the document seen by PythonSyntaxHighlighter ---
    doc,                \* the sequence of the document's blocks
    \* --- one call of highlightBlock ---
    ltext,              \* the block's text
    lprev,              \* previousBlockState()
    lres,               \* the call's result, or NoResult before the call
    \* --- CodeEditor's gutter ---
    blockCount,         \* self.blockCount()
    digitWidth,         \* self.fontMetrics().horizontalAdvance('9')
    margin,             \* the left viewport margin last set
    gutLast             \* history: the last thing that happened to the gutter

appVars  == <<text, modified, windowModified, current_file_path, disk, output,
              run_enabled, proc, chunks, closed, last>>
hlVars   == <<doc>>
lineVars == <<ltext, lprev, lres>>
gutVars  == <<blockCount, digitWidth, margin, gutLast>>
vars     == <<appVars, hlVars, lineVars, gutVars>>

---------------------------------------------------------------------------
(* Characters and the classes the rules' regular expressions use.          *)

Digits  == {"0", "1", "2", "3", "4", "5", "6", "7", "8", "9"}
Letters == {"a", "b", "c", "d", "e", "f", "g", "h", "i", "j", "k", "l", "m",
            "n", "o", "p", "q", "r", "s", "t", "u", "v", "w", "x", "y", "z",
            "A", "B", "C", "D", "E", "F", "G", "H", "I", "J", "K", "L", "M",
            "N", "O", "P", "Q", "R", "S", "T", "U", "V", "W", "X", "Y", "Z"}
\* [A-Za-z0-9_], also the \w that decides \b
WordChars == Letters \cup Digits \cup {"_"}
\* \s inside one block (a block holds no line feed)
SpaceChars == {" ", "\t"}

SQ3 == <<"'", "'", "'">>
DQ3 == <<"\"", "\"", "\"">>

\* the formats (QTextCharFormat objects) of PythonSyntaxHighlighter.__init__
NoFormat        == "none"
keyword_format  == "keyword"
builtin_format  == "builtin"
self_format     == "self"
string_format   == "string"
comment_format  == "comment"
number_format   == "number"
function_format == "function"

---------------------------------------------------------------------------
(* Values of the main window's state.                                      *)

\* self.current_file_path before any file is named
None == "None"

\* the paths a file dialog can return; "" is a dismissed dialog
Paths  == {"a.py", "b.py"}
Dismissed == ""

\* the texts the editor and the files can hold
Contents == {"", "p"}

\* no file at a path
NoFile == "NoFile"

\* a file system without files
NoDisk == [p \in Paths |-> NoFile]

\* what the last handler did, before any handler ran
NoLast ==
    [op |-> "init", asked |-> << >>, boxes |-> << >>, io |-> "none", atFailure |-> << >>,
     saved |-> FALSE, saveCancelled |-> FALSE, proceeded |-> FALSE,
     procBefore |-> "NotRunning"]

keywords ==
  <<
    <<"a","n","d">>, <<"a","s">>, <<"a","s","s","e","r","t">>, <<"b","r","e","a","k">>,
    <<"c","l","a","s","s">>, <<"c","o","n","t","i","n","u","e">>, <<"d","e","f">>,
    <<"d","e","l">>, <<"e","l","i","f">>, <<"e","l","s","e">>, <<"e","x","c","e","p","t">>,
    <<"F","a","l","s","e">>, <<"f","i","n","a","l","l","y">>, <<"f","o","r">>,
    <<"f","r","o","m">>, <<"g","l","o","b","a","l">>, <<"i","f">>, <<"i","m","p","o","r","t">>,
    <<"i","n">>, <<"i","s">>, <<"l","a","m","b","d","a">>, <<"N","o","n","e">>,
    <<"n","o","n","l","o","c","a","l">>, <<"n","o","t">>, <<"o","r">>, <<"p","a","s","s">>,
    <<"r","a","i","s","e">>, <<"r","e","t","u","r","n">>, <<"T","r","u","e">>, <<"t","r","y">>,
    <<"w","h","i","l","e">>, <<"w","i","t","h">>, <<"y","i","e","l","d">>
  >>

builtins ==
  <<
    <<"a","b","s">>, <<"a","l","l">>, <<"a","n","y">>, <<"a","s","c","i","i">>,
    <<"b","i","n">>, <<"b","o","o","l">>, <<"b","y","t","e","a","r","r","a","y">>,
    <<"b","y","t","e","s">>, <<"c","a","l","l","a","b","l","e">>, <<"c","h","r">>,
    <<"c","l","a","s","s","m","e","t","h","o","d">>, <<"c","o","m","p","i","l","e">>,
    <<"c","o","m","p","l","e","x">>, <<"d","e","l","a","t","t","r">>, <<"d","i","c","t">>,
    <<"d","i","r">>, <<"d","i","v","m","o","d">>, <<"e","n","u","m","e","r","a","t","e">>,
    <<"e","v","a","l">>, <<"e","x","e","c">>, <<"f","i","l","t","e","r">>,
    <<"f","l","o","a","t">>, <<"f","o","r","m","a","t">>,
    <<"f","r","o","z","e","n","s","e","t">>, <<"g","e","t","a","t","t","r">>,
    <<"g","l","o","b","a","l","s">>, <<"h","a","s","a","t","t","r">>, <<"h","a","s","h">>,
    <<"h","e","l","p">>, <<"h","e","x">>, <<"i","d">>, <<"i","n","p","u","t">>,
    <<"i","n","t">>, <<"i","s","i","n","s","t","a","n","c","e">>,
    <<"i","s","s","u","b","c","l","a","s","s">>, <<"i","t","e","r">>, <<"l","e","n">>,
    <<"l","i","s","t">>, <<"l","o","c","a","l","s">>, <<"m","a","p">>, <<"m","a","x">>,
    <<"m","e","m","o","r","y","v","i","e","w">>, <<"m","i","n">>, <<"n","e","x","t">>,
    <<"o","b","j","e","c","t">>, <<"o","c","t">>, <<"o","p","e","n">>, <<"o","r","d">>,
    <<"p","o","w">>, <<"p","r","i","n","t">>, <<"p","r","o","p","e","r","t","y">>,
    <<"r","a","n","g","e">>, <<"r","e","p","r">>, <<"r","e","v","e","r","s","e","d">>,
    <<"r","o","u","n","d">>, <<"s","e","t">>, <<"s","e","t","a","t","t","r">>,
    <<"s","l","i","c","e">>, <<"s","o","r","t","e","d">>,
    <<"s","t","a","t","i","c","m","e","t","h","o","d">>, <<"s","t","r">>, <<"s","u","m">>,
    <<"s","u","p","e","r">>, <<"t","u","p","l","e">>, <<"t","y","p","e">>, <<"v","a","r","s">>,
    <<"z","i","p">>
  >>

self_word  == <<"s", "e", "l", "f">>
class_word == <<"c", "l", "a", "s", "s">>
def_word   == <<"d", "e", "f">>

RECURSIVE WordRules(_, _, _)
WordRules(words, format, k) ==
    IF k > Len(words) THEN << >>
    ELSE <<[kind |-> "word", arg |-> words[k], format |-> format]>>
         \o WordRules(words, format, k + 1)

\* self.highlighting_rules, in registration order
highlighting_rules ==
    WordRules(keywords, keyword_format, 1)
    \o WordRules(builtins, builtin_format, 1)
    \o << [kind |-> "word",    arg |-> self_word,  format |-> self_format],
          [kind |-> "quoted",  arg |-> <<"\"">>,   format |-> string_format],
          [kind |-> "quoted",  arg |-> <<"'">>,    format |-> string_format],
          [kind |-> "comment", arg |-> <<"#">>,    format |-> comment_format],
          [kind |-> "number",  arg |-> << >>,      format |-> number_format],
          [kind |-> "call",    arg |-> <<"(">>,    format |-> function_format],
          [kind |-> "after",   arg |-> class_word, format |-> function_format],
          [kind |-> "after",   arg |-> def_word,   format |-> function_format] >>

---------------------------------------------------------------------------
(* Matching one rule's pattern at an offset: the length of the match that  *)
(* starts at offset p, or -1.  No pattern of the rule set matches the      *)
(* empty string.                                                           *)

CharAt(t, p) == IF p >= 0 /\ p < Len(t) THEN t[p + 1] ELSE ""
IsWordAt(t, p) == CharAt(t, p) \in WordChars
\* \b at offset p: exactly one of the characters around p is a word character
Boundary(t, p) == IsWordAt(t, p - 1) # IsWordAt(t, p)

\* t[p : p + Len(w)] = w
HasAt(t, w, p) ==
    /\ p >= 0
    /\ p + Len(w) <= Len(t)
    /\ \A k \in 1..Len(w) : t[p + k] = w[k]

RECURSIVE RunLen(_, _, _)
\* the number of consecutive characters of class cls from offset p on
RunLen(t, cls, p) ==
    IF CharAt(t, p) \in cls THEN 1 + RunLen(t, cls, p + 1) ELSE 0

\* \bw\b
MatchWord(t, w, p) ==
    IF Boundary(t, p) /\ HasAt(t, w, p) /\ Boundary(t, p + Len(w))
    THEN Len(w) ELSE -1

RECURSIVE NextChar(_, _, _)
\* the first offset >= p holding character c, or -1
NextChar(t, c, p) ==
    IF p >= Len(t) THEN -1
    ELSE IF t[p + 1] = c THEN p ELSE NextChar(t, c, p + 1)

\* ".*?" and '.*?': the quote, the fewest characters, the next quote
MatchQuoted(t, q, p) ==
    IF CharAt(t, p) # q THEN -1
    ELSE LET j == NextChar(t, q, p + 1)
         IN  IF j = -1 THEN -1 ELSE j - p + 1

\* #[^\n]*: from the # to the end of the block
MatchComment(t, p) == IF CharAt(t, p) = "#" THEN Len(t) - p ELSE -1

RECURSIVE FirstEnd(_, _, _)
\* greedy [0-9]* then \b: the largest e in lo..hi with a boundary at e, or -1
FirstEnd(t, lo, hi) ==
    IF hi < lo THEN -1
    ELSE IF Boundary(t, hi) THEN hi ELSE FirstEnd(t, lo, hi - 1)

RECURSIVE NumberFrom(_, _, _)
\* [0-9]+ having taken k digits from p (greedy: k counts down), then \.?
\* (the dot first), then [0-9]* (greedy), then \b
NumberFrom(t, p, k) ==
    IF k < 1 THEN -1
    ELSE LET q == p + k
             withDot == IF CharAt(t, q) = "."
                        THEN FirstEnd(t, q + 1, q + 1 + RunLen(t, Digits, q + 1))
                        ELSE -1
             noDot   == FirstEnd(t, q, q + RunLen(t, Digits, q))
         IN  IF withDot # -1 THEN withDot - p
             ELSE IF noDot # -1 THEN noDot - p
             ELSE NumberFrom(t, p, k - 1)

\* \b[0-9]+\.?[0-9]*\b
MatchNumber(t, p) ==
    IF Boundary(t, p) /\ CharAt(t, p) \in Digits
    THEN NumberFrom(t, p, RunLen(t, Digits, p))
    ELSE -1

\* \b[A-Za-z0-9_]+(?=\(): a whole word run with "(" right after it
MatchCall(t, p) ==
    LET n == RunLen(t, WordChars, p)
    IN  IF Boundary(t, p) /\ n >= 1 /\ CharAt(t, p + n) = "(" THEN n ELSE -1

\* (?<=class\s)[A-Za-z0-9_]+ and (?<=def\s)[A-Za-z0-9_]+
MatchAfter(t, w, p) ==
    LET n == RunLen(t, WordChars, p)
    IN  IF /\ HasAt(t, w, p - Len(w) - 1)
           /\ CharAt(t, p - 1) \in SpaceChars
           /\ n >= 1
        THEN n ELSE -1

MatchAt(t, rule, p) ==
    CASE rule.kind = "word"    -> MatchWord(t, rule.arg, p)
      [] rule.kind = "quoted"  -> MatchQuoted(t, rule.arg[1], p)
      [] rule.kind = "comment" -> MatchComment(t, p)
      [] rule.kind = "number"  -> MatchNumber(t, p)
      [] rule.kind = "call"    -> MatchCall(t, p)
      [] rule.kind = "after"   -> MatchAfter(t, rule.arg, p)

setFormat_keeps_earlier(fmt, start, count, format) ==
    IF start < 0 \/ start >= Len(fmt) THEN fmt
    ELSE [i \in 1..Len(fmt) |->
            IF i - 1 >= start /\ i - 1 < start + count /\ fmt[i] = NoFormat
            THEN format ELSE fmt[i]]

\* QSyntaxHighlighter.setFormat(start, count, format) on the block's format
\* array, one slot per character
setFormat(fmt, start, count, format) ==
    IF start < 0 \/ start >= Len(fmt) THEN fmt
    ELSE [i \in 1..Len(fmt) |->
            IF i - 1 >= start /\ i - 1 < start + count THEN format ELSE fmt[i]]

\* the characters a match of the rule's pattern can begin with
FirstChars(rule) ==
    CASE rule.kind = "word"    -> {rule.arg[1]}
      [] rule.kind = "quoted"  -> {rule.arg[1]}
      [] rule.kind = "comment" -> {"#"}
      [] rule.kind = "number"  -> Digits
      [] rule.kind = "call"    -> WordChars
      [] rule.kind = "after"   -> WordChars

RECURSIVE MatchFrom(_, _, _, _)
\* every match of the rule from offset p on, left to right, each resuming
\* where the previous one ended, each written with setFormat
MatchFrom(fmt, t, rule, p) ==
    IF p >= Len(t) THEN fmt
    ELSE LET n == MatchAt(t, rule, p)
         IN  IF n < 1 THEN MatchFrom(fmt, t, rule, p + 1)
             ELSE MatchFrom(setFormat(fmt, p, n, rule.format), t, rule, p + n)

\* pattern.globalMatch(text) and the loop over its matches; present is the
\* set of characters of the text.  A rule none of whose matches can begin
\* with a character of the text writes nothing.
globalMatch(fmt, t, present, rule) ==
    IF FirstChars(rule) \cap present = {} THEN fmt
    ELSE MatchFrom(fmt, t, rule, 0)

RECURSIVE ApplyRules(_, _, _, _, _, _)
\* "for pattern, format_rule in self.highlighting_rules": the rules lo..hi in
\* order, each writing over the earlier ones.  The range is halved, and the
\* first half's writes are computed before the second half starts, only to
\* keep the evaluation shallow; the order of the writes is lo, lo + 1, .., hi
ApplyRules(fmt, t, present, rules, lo, hi) ==
    IF lo > hi THEN fmt
    ELSE IF lo = hi THEN globalMatch(fmt, t, present, rules[lo])
    ELSE LET mid   == (lo + hi) \div 2
             first == ApplyRules(fmt, t, present, rules, lo, mid)
         IN  IF Len(first) = Len(t)
             THEN ApplyRules(first, t, present, rules, mid + 1, hi)
             ELSE first

\* the formats before highlightBlock runs: QSyntaxHighlighter clears them
ClearFormats(t) == [i \in 1..Len(t) |-> NoFormat]

\* the single-line pass of highlightBlock
SingleLineRules(t) ==
    LET present == {t[i] : i \in 1..Len(t)}
    IN  ApplyRules(ClearFormats(t), t, present, highlighting_rules,
                   1, Len(highlighting_rules))

---------------------------------------------------------------------------
(* The multi-line string pass of highlightBlock.                           *)

RECURSIVE find(_, _, _)
\* str.find(pat, start): the lowest offset >= start where pat occurs, or -1
find(t, pat, start) ==
    IF start + Len(pat) > Len(t) THEN -1
    ELSE IF HasAt(t, pat, start) THEN start
    ELSE find(t, pat, start + 1)

\* the delimiter of a carried state
DelimiterOf(state) == IF state = 1 THEN SQ3 ELSE DQ3

OpensSingle_whenever_found(start_s, start_d) == start_s # -1

\* which delimiter opens next, given where each occurs
OpensSingle(start_s, start_d) ==
    start_d = -1 \/ (start_s # -1 /\ start_s < start_d)

\* the block ends inside the string opened at new_start_index
UnclosedString(t, fmt, new_start_index, state) ==
    [state |-> state,
     fmt   |-> setFormat(fmt, new_start_index, Len(t) - new_start_index,
                         string_format)]

ResumeAtCloser(new_start_index, length) == new_start_index + length - 3

\* "start_index = new_start_index + length": the scan resumes past the closer
ResumeAfter(new_start_index, length) == new_start_index + length

RECURSIVE ScanLoop(_, _, _, _)
\* "while start_index < len(text)": look for new multi-line strings
ScanLoop(t, fmt, start_index, state) ==
    IF start_index >= Len(t) THEN [state |-> state, fmt |-> fmt]
    ELSE
      LET start_s == find(t, SQ3, start_index)
          start_d == find(t, DQ3, start_index)
      IN  IF start_s = -1 /\ start_d = -1 THEN [state |-> state, fmt |-> fmt]
          ELSE
            LET single          == OpensSingle(start_s, start_d)
                new_start_index == IF single THEN start_s ELSE start_d
                delimiter       == IF single THEN SQ3 ELSE DQ3
                new_state       == IF single THEN 1 ELSE 2
                end_index       == find(t, delimiter,
                                        new_start_index + Len(delimiter))
            IN  IF end_index = -1
                THEN UnclosedString(t, fmt, new_start_index, new_state)
                ELSE LET length == end_index - new_start_index + Len(delimiter)
                     IN  ScanLoop(t,
                                  setFormat(fmt, new_start_index, length,
                                            string_format),
                                  ResumeAfter(new_start_index, length),
                                  state)

StringContinues_falls_through(t, fmt, state) ==
    ScanLoop(t, setFormat(fmt, 0, Len(t), string_format), 0, state)

\* the carried string does not end in this block
StringContinues(t, fmt, in_multiline_state) ==
    [state |-> in_multiline_state,
     fmt   |-> setFormat(fmt, 0, Len(t), string_format)]

StringEnds_rescans_closer(t, fmt, end_index, delimiter) ==
    LET length == end_index + Len(delimiter)
    IN  ScanLoop(t, setFormat(fmt, 0, length, string_format), end_index, 0)

\* the carried string ends in this block at end_index
StringEnds(t, fmt, end_index, delimiter) ==
    LET length == end_index + Len(delimiter)
    IN  ScanLoop(t, setFormat(fmt, 0, length, string_format), length, 0)

\* highlightBlock(text) with previousBlockState() = prev: the block's new
\* state (setCurrentBlockState) and formats
highlightBlock(t, prev) ==
    LET fmt == SingleLineRules(t)
    IN  IF prev > 0
        THEN LET delimiter == DelimiterOf(prev)
                 end_index == find(t, delimiter, 0)
             IN  IF end_index = -1
                 THEN StringContinues(t, fmt, prev)
                 ELSE StringEnds(t, fmt, end_index, delimiter)
        ELSE ScanLoop(t, fmt, 0, 0)

---------------------------------------------------------------------------
(* One call of highlightBlock on one block, for every text made of at most *)
(* MaxTokens pieces and every value previousBlockState() can return.       *)

MaxTokens == 4

\* the pieces the texts are built from
LineTokens ==
    { SQ3, DQ3, <<"'">>, <<"\"">>, <<"x">>, <<"#">> }

RECURSIVE TextsUpTo(_)
TextsUpTo(k) ==
    IF k = 0 THEN { << >> }
    ELSE LET shorter == TextsUpTo(k - 1)
         IN  shorter \cup { s \o tok : s \in shorter, tok \in LineTokens }

\* lines of the specification's scenarios, and two lines where rules overlap
\* x = 1  # comment
ScenarioA ==
    <<"x", " ", "=", " ", "1", " ", " ", "#", " ", "c", "o", "m", "m", "e", "n", "t">>
\* s = '''abc
ScenarioB1 ==
    <<"s", " ", "=", " ", "'", "'", "'", "a", "b", "c">>
\* def''' 
ScenarioB2 ==
    <<"d", "e", "f", "'", "'", "'", " ">>
\* def foo(x):
ScenarioC ==
    <<"d", "e", "f", " ", "f", "o", "o", "(", "x", ")", ":">>
\* '''a''' b """c"""
TwoStrings ==
    <<"'", "'", "'", "a", "'", "'", "'", " ", "b", " ", "\"", "\"", "\"", "c", "\"", "\"", "\"">>
\* print("#")  # '''
PrintCall ==
    <<"p", "r", "i", "n", "t", "(", "\"", "#", "\"", ")", " ", " ", "#", " ", "'", "'", "'">>

SampleLines ==
    { ScenarioA, ScenarioB1, ScenarioB2, ScenarioC, TwoStrings, PrintCall }

\* the texts highlightBlock is called with
LineTexts == TextsUpTo(MaxTokens) \cup SampleLines

\* previousBlockState(): -1 when there is no previous block, else its state
PrevStates == {-1, 0, 1, 2}

NoResult == [state |-> -1, fmt |-> << >>, done |-> FALSE]

LineInit ==
    /\ ltext \in LineTexts
    /\ lprev \in PrevStates
    /\ lres = NoResult
    /\ text = "" /\ modified = FALSE /\ windowModified = FALSE
    /\ current_file_path = None /\ disk = NoDisk /\ output = << >>
    /\ run_enabled = TRUE /\ proc = "NotRunning" /\ chunks = 0
    /\ closed = FALSE /\ last = NoLast
    /\ doc = << >>
    /\ blockCount = 1 /\ digitWidth = 7 /\ margin = 0 /\ gutLast = "init"

\* the document calls highlightBlock on the block
HighlightLine ==
    /\ ~lres.done
    /\ LET r == highlightBlock(ltext, lprev)
       IN  lres' = [state |-> r.state, fmt |-> r.fmt, done |-> TRUE]
    /\ UNCHANGED <<ltext, lprev>>
    /\ UNCHANGED <<appVars, hlVars, gutVars>>

LineNext == HighlightLine

---------------------------------------------------------------------------
(* The document and its highlighter.  PythonSyntaxHighlighter is attached  *)
(* to the editor's document; after every change of the document the base   *)
(* class QSyntaxHighlighter calls highlightBlock on the changed blocks and *)
(* goes on to the following blocks for as long as a block's state changed. *)
(* A block is [text, state, fmt, usedIn, hlText, fresh, again]: its text,   *)
(* its userState() (-1 until it is first highlighted) and its formats; and *)
(* as history: the previousBlockState() and the text its last              *)
(* highlightBlock call read, whether the last pass highlighted it (fresh), *)
(* and whether that call read the text and the incoming state the call     *)
(* before it had read (again).                                             *)

MaxLines == 3

NeverHighlighted == -2

\* the texts a block of the document can hold
DocLineTexts == { << >>, <<"x">>, SQ3, DQ3, SQ3 \o DQ3 }

\* the contents of the files that can be loaded
FileDocs == { <<SQ3, <<"x">>, SQ3>>, <<DQ3, SQ3>>, <<SQ3 \o DQ3, <<"x">>>> }

NewBlock(t) ==
    [text |-> t, state |-> -1, fmt |-> ClearFormats(t),
     usedIn |-> NeverHighlighted, hlText |-> t, fresh |-> FALSE,
     again |-> FALSE]

\* QSyntaxHighlighter.previousBlockState() while block i is highlighted
previousBlockState(d, i) == IF i = 1 THEN -1 ELSE d[i - 1].state

\* QSyntaxHighlighter.currentBlockState() while block i is highlighted
currentBlockState(d, i) == d[i].state

in_multiline_state_current(d, i) == currentBlockState(d, i)

\* "in_multiline_state = self.previousBlockState()"
in_multiline_state(d, i) == previousBlockState(d, i)

\* highlightBlock reads the block's text and previousBlockState() and
\* nothing else: its results for the texts a block can hold, computed once
BlockHighlight ==
    [t \in DocLineTexts |-> [prev \in -1..2 |-> highlightBlock(t, prev)]]

\* a carried state as highlightBlock reads it: only 1 and 2 mean "inside"
Carry(s) == IF s > 0 THEN s ELSE 0

\* one call of highlightBlock on block i of the document
reformatBlock(d, i) ==
    LET prev == in_multiline_state(d, i)
        r    == BlockHighlight[d[i].text][prev]
    IN  [d EXCEPT ![i] =
            [text |-> d[i].text, state |-> r.state, fmt |-> r.fmt,
             usedIn |-> prev, hlText |-> d[i].text, fresh |-> TRUE,
             again |-> /\ d[i].usedIn # NeverHighlighted
                       /\ d[i].hlText = d[i].text
                       /\ Carry(d[i].usedIn) = Carry(prev)]]

RECURSIVE reformatBlocks(_, _, _, _)
\* the pass after a change: the blocks from i to lastBlock, and then on
\* while the block just highlighted changed its state
reformatBlocks(d, i, lastBlock, forceHighlightOfNextBlock) ==
    IF i > Len(d) \/ ~(i <= lastBlock \/ forceHighlightOfNextBlock) THEN d
    ELSE LET stateBeforeHighlight == d[i].state
             d2 == reformatBlock(d, i)
         IN  reformatBlocks(d2, i + 1, lastBlock,
                            d2[i].state # stateBeforeHighlight)

\* the blocks as a change finds them: none highlighted by the pass to come
Stale(d) ==
    [k \in 1..Len(d) |-> [d[k] EXCEPT !.fresh = FALSE, !.again = FALSE]]

\* d with the blocks i..j replaced by the blocks bs
Splice(d, i, j, bs) == SubSeq(d, 1, i - 1) \o bs \o SubSeq(d, j + 1, Len(d))

\* a document of fresh blocks, highlighted from the first block on
Loaded(ts) ==
    reformatBlocks([k \in 1..Len(ts) |-> NewBlock(ts[k])], 1, Len(ts), FALSE)

\* the document of a new editor: new_file has cleared it
HLInit ==
    /\ doc = Loaded(<< << >> >>)
    /\ text = "" /\ modified = FALSE /\ windowModified = FALSE
    /\ current_file_path = None /\ disk = NoDisk /\ output = << >>
    /\ run_enabled = TRUE /\ proc = "NotRunning" /\ chunks = 0
    /\ closed = FALSE /\ last = NoLast
    /\ ltext = << >> /\ lprev = -1 /\ lres = NoResult
    /\ blockCount = 1 /\ digitWidth = 7 /\ margin = 0 /\ gutLast = "init"

\* typing in, or deleting from, line i without touching a line break.  A
\* deletion at the end of the line makes the pass start with the next line
\* in its range too (reach = 1).
EditLine(i, t, reach) ==
    /\ i \in 1..Len(doc)
    /\ t # doc[i].text
    /\ doc' = reformatBlocks([Stale(doc) EXCEPT ![i].text = t],
                              i, i + reach, FALSE)

\* Enter at offset k of line i: the block keeps the head and its state, a
\* fresh block takes the tail
SplitLine(i, k) ==
    /\ i \in 1..Len(doc)
    /\ Len(doc) < MaxLines
    /\ k \in 0..Len(doc[i].text)
    /\ LET head == SubSeq(doc[i].text, 1, k)
           tail == SubSeq(doc[i].text, k + 1, Len(doc[i].text))
       IN  /\ head \in DocLineTexts
           /\ tail \in DocLineTexts
           /\ doc' = reformatBlocks(
                        Splice(Stale(doc), i, i,
                               << [Stale(doc)[i] EXCEPT !.text = head],
                                  NewBlock(tail) >>),
                        i, i + 1, FALSE)

\* the block that survives the removal of the line break after line i: it
\* takes over the state of the block that goes
Survivor(d, i, t) == [d[i] EXCEPT !.text = t, !.state = d[i + 1].state]

\* Backspace at the start of line i + 1, or Delete at the end of line i
JoinLines(i) ==
    /\ i \in 1..(Len(doc) - 1)
    /\ LET t == doc[i].text \o doc[i + 1].text
       IN  /\ t \in DocLineTexts
           /\ doc' = reformatBlocks(
                        Splice(Stale(doc), i, i + 1, <<Survivor(Stale(doc), i, t)>>),
                        i, IF doc[i + 1].text = << >> THEN i + 1 ELSE i,
                        FALSE)

\* deleting a whole line with one of its line breaks: line i + 1 with the
\* break before it (keep = i), or line i with the break after it
\* (keep = i + 1)
DeleteLine(i, keep) ==
    /\ i \in 1..(Len(doc) - 1)
    /\ keep \in {i, i + 1}
    /\ LET t == doc[keep].text
       IN  doc' = reformatBlocks(
                     Splice(Stale(doc), i, i + 1, <<Survivor(Stale(doc), i, t)>>),
                     i, IF keep = i \/ t = << >> THEN i + 1 ELSE i,
                     FALSE)

\* self.editor.setPlainText(content) in open_file
setPlainText(ts) == doc' = Loaded(ts)

\* self.editor.clear() in new_file
clear == doc' = Loaded(<< << >> >>)

EditSomeLine ==
    /\ \E i \in 1..MaxLines, t \in DocLineTexts, reach \in {0, 1} :
           EditLine(i, t, reach)
    /\ UNCHANGED <<appVars, lineVars, gutVars>>

SplitSomeLine ==
    /\ \E i \in 1..MaxLines, k \in 0..6 : SplitLine(i, k)
    /\ UNCHANGED <<appVars, lineVars, gutVars>>

JoinSomeLines ==
    /\ \E i \in 1..MaxLines : JoinLines(i)
    /\ UNCHANGED <<appVars, lineVars, gutVars>>

DeleteSomeLine ==
    /\ \E i \in 1..MaxLines, keep \in 1..(MaxLines + 1) : DeleteLine(i, keep)
    /\ UNCHANGED <<appVars, lineVars, gutVars>>

LoadSomeFile ==
    /\ \E ts \in FileDocs : setPlainText(ts)
    /\ UNCHANGED <<appVars, lineVars, gutVars>>

ClearDocument ==
    /\ clear
    /\ UNCHANGED <<appVars, lineVars, gutVars>>

HLNext ==
    \/ EditSomeLine
    \/ SplitSomeLine
    \/ JoinSomeLines
    \/ DeleteSomeLine
    \/ LoadSomeFile
    \/ ClearDocument

---------------------------------------------------------------------------
(* Properties of the document and its highlighter (HLSpec).                *)

Min(a, b) == IF a < b THEN a ELSE b

\* C1: after every completed pass, every line has been highlighted, the
\* incoming state its highlighting read is the state stored for the line
\* before it (Clean for the first line), and what is stored for it is the
\* result for its present text and that incoming state.
C1_CarryChain ==
    \A i \in 1..Len(doc) :
        /\ doc[i].state \in {0, 1, 2}
        /\ doc[i].usedIn # NeverHighlighted
        /\ Carry(doc[i].usedIn) = (IF i = 1 THEN 0 ELSE doc[i - 1].state)
        /\ LET r == BlockHighlight[doc[i].text][doc[i].usedIn]
           IN  doc[i].state = r.state /\ doc[i].fmt = r.fmt

\* a change of line 2 alone, whose pass went on to line 3: line 2 closes
\* the string line 1 opened and opens another, which line 3 is now inside
C1_Witness ==
    /\ Len(doc) = 3
    /\ ~doc[1].fresh /\ doc[1].state = 1
    /\ doc[2].fresh /\ doc[2].usedIn = 1 /\ doc[2].state = 2
    /\ doc[3].fresh /\ doc[3].usedIn = 2 /\ doc[3].hlText = <<"x">>

\* C7: a line a pass highlights again, with the text and the incoming state
\* it had before the change, keeps the formats and the state it had.
C7_Idempotent ==
    [][ \A i \in 1..Min(Len(doc), Len(doc')) :
          ( /\ doc'[i].fresh
            /\ doc'[i].text = doc[i].text
            /\ Carry(previousBlockState(doc', i))
                 = Carry(previousBlockState(doc, i)) )
          => (doc'[i].fmt = doc[i].fmt /\ doc'[i].state = doc[i].state) ]_vars

\* a line inside a multi-line string was highlighted again, its text and
\* its incoming state being what they were
C7_Witness ==
    \E i \in 1..Len(doc) :
        /\ doc[i].again
        /\ doc[i].state = 1 /\ doc[i].usedIn = 1
        /\ Len(doc[i].text) > 0

---------------------------------------------------------------------------
(* The gutter of CodeEditor: the left viewport margin reserved for the     *)
(* line numbers.  The document is seen through its block count, the font   *)
(* through the width of the digit 9.                                       *)

MaxBlocks == 101
MaxPaste  == 3

\* the "10 +" of lineNumberAreaWidth
GutterPadding == 10

\* horizontalAdvance('9') of the fonts the editor can be given
DigitWidths == {7, 9, 12}

RECURSIVE CountDigits_gt(_, _)
CountDigits_gt(count, digits) ==
    IF count > 10 THEN CountDigits_gt(count \div 10, digits + 1) ELSE digits

RECURSIVE CountDigits(_, _)
\* "while count >= 10: count //= 10; digits += 1"
CountDigits(count, digits) ==
    IF count >= 10 THEN CountDigits(count \div 10, digits + 1) ELSE digits

\* CodeEditor.lineNumberAreaWidth() for a block count and a digit width
lineNumberAreaWidth(count, width) ==
    LET c == IF count > 1 THEN count ELSE 1
    IN  GutterPadding + width * CountDigits(c, 1)

\* updateLineNumberAreaWidth: setViewportMargins(lineNumberAreaWidth(), ..)
updateLineNumberAreaWidth ==
    margin' = lineNumberAreaWidth(blockCount', digitWidth')

\* CodeEditor.__init__ sets the margin for the one block of the empty
\* document and the widget's first font; init_ui then sets the editor font
GutterInit ==
    /\ blockCount = 1
    /\ digitWidth \in DigitWidths
    /\ \E w \in DigitWidths : margin = lineNumberAreaWidth(1, w)
    /\ gutLast = "init"
    /\ text = "" /\ modified = FALSE /\ windowModified = FALSE
    /\ current_file_path = None /\ disk = NoDisk /\ output = << >>
    /\ run_enabled = TRUE /\ proc = "NotRunning" /\ chunks = 0
    /\ closed = FALSE /\ last = NoLast
    /\ doc = << >>
    /\ ltext = << >> /\ lprev = -1 /\ lres = NoResult

\* lines are added (Enter, paste, load): blockCountChanged fires
InsertLines ==
    /\ \E n \in 1..MaxPaste :
          /\ blockCount + n <= MaxBlocks
          /\ blockCount' = blockCount + n
    /\ UNCHANGED digitWidth
    /\ updateLineNumberAreaWidth
    /\ gutLast' = "insert"
    /\ UNCHANGED <<appVars, hlVars, lineVars>>

\* lines are removed: blockCountChanged fires
RemoveLines ==
    /\ \E n \in 1..MaxPaste :
          /\ blockCount - n >= 1
          /\ blockCount' = blockCount - n
    /\ UNCHANGED digitWidth
    /\ updateLineNumberAreaWidth
    /\ gutLast' = "remove"
    /\ UNCHANGED <<appVars, hlVars, lineVars>>

\* increase_font_size, decrease_font_size: self.editor.setFont(font); the
\* margin is not set again here
setFont ==
    /\ \E w \in DigitWidths : w # digitWidth /\ digitWidth' = w
    /\ gutLast' = "font"
    /\ UNCHANGED <<blockCount, margin>>
    /\ UNCHANGED <<appVars, hlVars, lineVars>>

\* updateLineNumberArea(rect, dy) on updateRequest: the margin is set again
\* when rect contains the whole viewport
updateLineNumberArea ==
    /\ \E containsViewport \in BOOLEAN :
          IF containsViewport
          THEN UNCHANGED <<blockCount, digitWidth>> /\ updateLineNumberAreaWidth
          ELSE UNCHANGED <<blockCount, digitWidth, margin>>
    /\ gutLast' = "update"
    /\ UNCHANGED <<appVars, hlVars, lineVars>>

GutterNext ==
    \/ InsertLines
    \/ RemoveLines
    \/ setFont
    \/ updateLineNumberArea

---------------------------------------------------------------------------
(* Properties of the gutter (GutterSpec).                                  *)

\* the number of decimal digits of n, 0 counting as 1
DecimalDigits(n) ==
    LET m == IF n > 1 THEN n ELSE 1
    IN  CHOOSE k \in 1..6 : 10 ^ (k - 1) <= m /\ m < 10 ^ k

\* the margin is the one for the present block count and font
MarginCurrent == margin = GutterPadding + digitWidth * DecimalDigits(blockCount)

\* C8 as stated: growing from 9 to 10 lines adds one digit's width plus
\* the fixed padding to the margin.
C8_AsStated ==
    [][ (blockCount = 9 /\ blockCount' = 10 /\ MarginCurrent)
          => margin' - margin = digitWidth' + GutterPadding ]_vars

\* C8, amended: growing from 9 to 10 lines, the font being the one the
\* margin was set for, adds exactly one digit's width to the margin: from
\* the padding plus one digit's width to the padding plus two.
C8_GrowsByOneDigit ==
    [][ (blockCount = 9 /\ blockCount' = 10 /\ MarginCurrent)
          => /\ margin' - margin = digitWidth'
             /\ margin  = GutterPadding + digitWidth
             /\ margin' = GutterPadding + 2 * digitWidth ]_vars

\* the document has just grown to 10 lines
C8_Witness ==
    /\ gutLast = "insert"
    /\ blockCount = 10
    /\ margin = GutterPadding + 2 * digitWidth

\* C9: every change of the block count leaves the margin at the padding
\* plus the digit width times the number of decimal digits of the new count.
C9_MarginFollowsCount ==
    [][ blockCount' # blockCount
          => margin' = GutterPadding + digitWidth' * DecimalDigits(blockCount') ]_vars

\* lines were removed and the count went from three digits to two
C9_Witness ==
    /\ gutLast = "remove"
    /\ blockCount = 99
    /\ margin = GutterPadding + 2 * digitWidth

---------------------------------------------------------------------------
(* The main window, PythonCodeEditor: file operations, the unsaved-changes *)
(* prompt and the external interpreter process.  A handler runs as one     *)
(* step; the answers the user gives to its dialogs and the outcome of its  *)
(* file access are its inputs.  While it runs, a handler works on a record *)
(* s: the document state (text, modified, windowModified, path), the file  *)
(* system (disk) and, as history, the dialogs it showed (asked), the       *)
(* message boxes it raised (boxes), the file access that failed (io),      *)
(* whether it wrote the file (saved) and whether the user declined to save *)
(* (saveCancelled: Cancel in the prompt, or the Save File dialog           *)
(* dismissed).                                                             *)

MaxChunks == 1

\* the record a handler starts from
Begin ==
    [text |-> text, modified |-> modified, windowModified |-> windowModified,
     path |-> current_file_path, disk |-> disk,
     asked |-> << >>, boxes |-> << >>, io |-> "none", atFailure |-> << >>,
     saved |-> FALSE, saveCancelled |-> FALSE]

\* a modal dialog is shown
Asked(s, dialog) == [s EXCEPT !.asked = Append(@, dialog)]

\* an exception is caught: QMessageBox.critical is raised; atFailure keeps
\* the document state at that moment
Failure(s, kind, box) ==
    [s EXCEPT !.boxes = Append(@, box), !.io = kind,
              !.atFailure = <<s.text, s.path, s.modified>>]

\* set_current_file(file_path)
set_current_file(s, file_path) ==
    [s EXCEPT !.path = file_path, !.modified = FALSE, !.windowModified = FALSE]

\* how writing a file can fail: open() raises and the file is as it was;
\* write() raises after open() has truncated the file
WriteFailures == {"open_fails", "write_fails"}

write_failed_after_set(s, file_path, failure) ==
    set_current_file(
        Failure([s EXCEPT !.disk[file_path] =
                     IF failure = "write_fails" THEN "" ELSE @],
                "write_failed", "critical_save"),
        file_path)

\* _write_to_file, the except branch
write_failed(s, file_path, failure) ==
    Failure([s EXCEPT !.disk[file_path] =
                 IF failure = "write_fails" THEN "" ELSE @],
            "write_failed", "critical_save")

\* _write_to_file(file_path): the outcomes it can have, each with the value
\* it returns (ok) and the state it leaves (s)
write_to_file(s, file_path) ==
    { [ok |-> TRUE,
       s  |-> [set_current_file([s EXCEPT !.disk[file_path] = s.text],
                                file_path)
                 EXCEPT !.saved = TRUE]] }
    \cup { [ok |-> FALSE, s |-> write_failed(s, file_path, failure)] :
             failure \in WriteFailures }

save_file_as_dismissed_is_saved(s) ==
    LET a == Asked(s, "SaveFile")
    IN  { [ok |-> TRUE, s |-> [a EXCEPT !.saveCancelled = TRUE]] }
        \cup UNION { write_to_file(a, file_path) : file_path \in Paths }

\* save_file_as(): QFileDialog.getSaveFileName returns a path, or nothing
\* when the dialog is dismissed
save_file_as(s) ==
    LET a == Asked(s, "SaveFile")
    IN  { [ok |-> FALSE, s |-> [a EXCEPT !.saveCancelled = TRUE]] }
        \cup UNION { write_to_file(a, file_path) : file_path \in Paths }

\* save_file()
save_file(s) ==
    IF s.path = None THEN save_file_as(s) ELSE write_to_file(s, s.path)

maybe_save_cancel_proceeds(s) ==
    IF ~s.modified THEN { [ok |-> TRUE, s |-> s] }
    ELSE LET a == Asked(s, "SaveDiscardCancel")
         IN  save_file(a)
             \cup { [ok |-> TRUE, s |-> [a EXCEPT !.saveCancelled = TRUE]] }
             \cup { [ok |-> TRUE, s |-> a] }

\* maybe_save(): the prompt is answered Save, Cancel or Discard
maybe_save(s) ==
    IF ~s.modified THEN { [ok |-> TRUE, s |-> s] }
    ELSE LET a == Asked(s, "SaveDiscardCancel")
         IN  save_file(a)
             \cup { [ok |-> FALSE, s |-> [a EXCEPT !.saveCancelled = TRUE]] }
             \cup { [ok |-> TRUE, s |-> a] }

\* the handler's record becomes the state; last records what it did
Commit(op, s, proceeded) ==
    /\ text' = s.text
    /\ modified' = s.modified
    /\ windowModified' = s.windowModified
    /\ current_file_path' = s.path
    /\ disk' = s.disk
    /\ last' = [op |-> op, asked |-> s.asked, boxes |-> s.boxes, io |-> s.io,
                atFailure |-> s.atFailure,
                saved |-> s.saved, saveCancelled |-> s.saveCancelled,
                proceeded |-> proceeded, procBefore |-> proc]

\* a handler that touches no document state
Event(op) ==
    /\ UNCHANGED <<text, modified, windowModified, current_file_path, disk>>
    /\ last' = [NoLast EXCEPT !.op = op, !.procBefore = proc]

otherVars == <<hlVars, lineVars, gutVars>>

\* PythonCodeEditor.__init__ and init_ui, which ends with new_file(); the
\* file system holds any files
Init ==
    /\ text = "" /\ modified = FALSE /\ windowModified = FALSE
    /\ current_file_path = None
    /\ disk \in [Paths -> {NoFile, "q"}]
    /\ output = << >>
    /\ run_enabled = TRUE /\ proc = "NotRunning" /\ chunks = 0
    /\ closed = FALSE /\ last = NoLast
    /\ doc = << >>
    /\ ltext = << >> /\ lprev = -1 /\ lres = NoResult
    /\ blockCount = 1 /\ digitWidth = 7 /\ margin = 0 /\ gutLast = "init"

\* the user edits the text: the document becomes modified, textChanged
\* calls document_was_modified
document_was_modified ==
    /\ ~closed
    /\ \E c \in Contents :
          /\ c # text
          /\ Commit("edit", [Begin EXCEPT !.text = c, !.modified = TRUE,
                                          !.windowModified = TRUE], FALSE)
    /\ UNCHANGED <<output, run_enabled, proc, chunks, closed, otherVars>>

\* new_file()
new_file ==
    /\ ~closed
    /\ \E r \in maybe_save(Begin) :
          IF r.ok
          THEN Commit("new", set_current_file([r.s EXCEPT !.text = ""], None),
                      TRUE)
          ELSE Commit("new", r.s, FALSE)
    /\ UNCHANGED <<output, run_enabled, proc, chunks, closed, otherVars>>

\* open_file, the except branch: open() or read() raised, before
\* setPlainText
open_read_failed(s) == Failure(s, "read_failed", "critical_open")

\* open_file(): QFileDialog.getOpenFileName returns a path, or nothing when
\* the dialog is dismissed; reading fails for a missing file, and can fail
\* for any file (permissions, decoding)
open_file ==
    /\ ~closed
    /\ \E r \in maybe_save(Begin) :
          IF ~r.ok THEN Commit("open", r.s, FALSE)
          ELSE LET a == Asked(r.s, "OpenFile")
               IN  \/ Commit("open", a, FALSE)
                   \/ \E file_path \in Paths :
                         \/ Commit("open", open_read_failed(a), FALSE)
                         \/ /\ a.disk[file_path] # NoFile
                            /\ Commit("open",
                                      set_current_file(
                                          [a EXCEPT !.text = a.disk[file_path]],
                                          file_path),
                                      TRUE)
    /\ UNCHANGED <<output, run_enabled, proc, chunks, closed, otherVars>>

\* the Save action
SaveAction ==
    /\ ~closed
    /\ \E r \in save_file(Begin) : Commit("save", r.s, r.ok)
    /\ UNCHANGED <<output, run_enabled, proc, chunks, closed, otherVars>>

\* the Save As action
SaveAsAction ==
    /\ ~closed
    /\ \E r \in save_file_as(Begin) : Commit("save_as", r.s, r.ok)
    /\ UNCHANGED <<output, run_enabled, proc, chunks, closed, otherVars>>

\* closeEvent(event): accepted when maybe_save() allows it
closeEvent ==
    /\ ~closed
    /\ \E r \in maybe_save(Begin) :
          /\ Commit("close", r.s, r.ok)
          /\ closed' = r.ok
    /\ UNCHANGED <<output, run_enabled, proc, chunks, otherVars>>

run_action_left_enabled == TRUE

\* "self.run_action.setEnabled(False)" in run_code
run_action_while_running == FALSE

run_code_prompts(s) == maybe_save(s)

\* "if not self.save_file()" in run_code: the file is saved, under a name
\* asked for when it has none; no prompt offers to discard
run_code_saves(s) == save_file(s)

\* QProcess.start(): a process already started is left alone
start(state) == IF state = "NotRunning" THEN "Starting" ELSE state

\* run_code(), the slot of run_action: only an enabled action triggers
run_code ==
    /\ ~closed
    /\ run_enabled
    /\ \E r \in run_code_saves(Begin) :
          IF ~r.ok
          THEN /\ Commit("run", r.s, FALSE)
               /\ UNCHANGED <<output, run_enabled, proc, chunks>>
          ELSE IF r.s.path # None
          THEN /\ Commit("run", r.s, TRUE)
               /\ output' = <<"header">>
               /\ run_enabled' = run_action_while_running
               /\ proc' = start(proc)
               /\ chunks' = MaxChunks
          ELSE /\ Commit("run",
                         [r.s EXCEPT !.boxes = Append(@, "warning_cannot_run")],
                         FALSE)
               /\ UNCHANGED <<output, run_enabled, proc, chunks>>
    /\ UNCHANGED <<closed, otherVars>>

\* the interpreter has started
ProcessStarted ==
    /\ ~closed
    /\ proc = "Starting"
    /\ proc' = "Running"
    /\ Event("started")
    /\ UNCHANGED <<output, run_enabled, chunks, closed, otherVars>>

\* the interpreter could not be started: QProcess emits errorOccurred, which
\* no slot is connected to, and never emits finished
ProcessFailedToStart ==
    /\ ~closed
    /\ proc = "Starting"
    /\ proc' = "NotRunning"
    /\ Event("failed_to_start")
    /\ UNCHANGED <<output, run_enabled, chunks, closed, otherVars>>

\* handle_stdout(), the slot of readyReadStandardOutput
handle_stdout ==
    /\ ~closed
    /\ proc = "Running"
    /\ chunks > 0
    /\ chunks' = chunks - 1
    /\ output' = Append(output, "stdout")
    /\ Event("stdout")
    /\ UNCHANGED <<run_enabled, proc, closed, otherVars>>

\* handle_stderr(), the slot of readyReadStandardError
handle_stderr ==
    /\ ~closed
    /\ proc = "Running"
    /\ chunks > 0
    /\ chunks' = chunks - 1
    /\ output' = Append(output, "stderr")
    /\ Event("stderr")
    /\ UNCHANGED <<run_enabled, proc, closed, otherVars>>

\* process_finished(), the slot of finished: the interpreter has exited or
\* crashed
process_finished ==
    /\ ~closed
    /\ proc = "Running"
    /\ proc' = "NotRunning"
    /\ output' = Append(output, "finished")
    /\ run_enabled' = TRUE
    /\ Event("finished")
    /\ UNCHANGED <<chunks, closed, otherVars>>

Next ==
    \/ document_was_modified
    \/ new_file
    \/ open_file
    \/ SaveAction
    \/ SaveAsAction
    \/ closeEvent
    \/ run_code
    \/ ProcessStarted
    \/ ProcessFailedToStart
    \/ handle_stdout
    \/ handle_stderr
    \/ process_finished

---------------------------------------------------------------------------
(* Properties of the main window.                                          *)

Range(seq) == { seq[i] : i \in 1..Len(seq) }

\* the actions that ask maybe_save or save_file before they act
Triggering == {"close", "new", "open", "run"}

\* C2: at most one interpreter invocation is outstanding.  While a process
\* started by run_code has not had its finished event handled, the run
\* action is disabled, and every run that starts a process finds none
\* active, whatever the user and the process do in between.
C2_OneInvocation ==
    /\ proc # "NotRunning" => ~run_enabled
    /\ (last.op = "run" /\ last.proceeded) => last.procBefore = "NotRunning"

\* C2: the process is running with output received, the run action is
\* disabled, and the user has just saved the file.
C2_Witness ==
    /\ proc = "Running" /\ ~run_enabled
    /\ output = <<"header", "stdout">>
    /\ last.op = "save" /\ last.proceeded

C4_CancelHasNoEffect ==
    [][(last'.op \in Triggering /\ modified /\ last'.saveCancelled)
          => /\ ~last'.proceeded
             /\ UNCHANGED <<text, current_file_path, modified, windowModified,
                            disk, output, proc, run_enabled, closed>>]_vars

\* C4: new was cancelled at the prompt while the interpreter was running
\* and had produced output; the edited text and its path are still there.
C4_Witness ==
    /\ last.op = "new" /\ last.asked = <<"SaveDiscardCancel">>
    /\ last.saveCancelled /\ ~last.proceeded
    /\ modified /\ text = "p" /\ current_file_path = "a.py"
    /\ proc = "Running" /\ output = <<"header", "stderr">>

\* C5: when reading in open_file or writing in _write_to_file fails, a
\* message box is raised and the handler does not proceed.  A failed write
\* leaves text, path and modified flag as they were when the handler was
\* triggered; a failed read leaves the text, and leaves path and modified
\* flag as they were when the read was attempted (after the save the user
\* may have chosen in the prompt before).
C5_FailureLeavesDocument ==
    [][/\ last'.io = "write_failed"
            => /\ "critical_save" \in Range(last'.boxes)
               /\ ~last'.proceeded /\ ~last'.saved
               /\ UNCHANGED <<text, current_file_path, modified>>
       /\ last'.io = "read_failed"
            => /\ "critical_open" \in Range(last'.boxes)
               /\ ~last'.proceeded
               /\ text' = text
               /\ <<text', current_file_path', modified'>> = last'.atFailure
               /\ ~last'.saved => UNCHANGED <<current_file_path, modified>>
      ]_vars

\* C5: saving the edited document under a new name failed in write(); the
\* document is still modified and still has its old path.
C5_Witness ==
    /\ last.op = "save_as" /\ last.io = "write_failed"
    /\ last.boxes = <<"critical_save">>
    /\ modified /\ text = "p" /\ current_file_path = "a.py"
    /\ disk["b.py"] = ""

\* C6 as the specification states it: when the interpreter fails to start,
\* a warning is raised, and the output view receives no stdout or stderr
\* text for that invocation.
C6_StartFailureSurfaced ==
    last.op = "failed_to_start"
        => /\ last.boxes # << >>
           /\ Range(output) \cap {"stdout", "stderr"} = {}

\* C15 as stated: every time run_code has disabled the run action and
\* started the interpreter, the run action is enabled again at some later
\* time (or the window has been closed), whether the interpreter exits,
\* crashes or fails to start.
C15_RunActionReenabled ==
    (~run_enabled /\ ~closed) ~> (run_enabled \/ closed)

\* C16: whenever run_code starts the interpreter, the document has a file
\* path, its text has just been written to that file, and it is not
\* modified; run_code never reaches its "Cannot Run" warning.
C16_RunStartsSavedFile ==
    /\ (last.op = "run" /\ last.proceeded)
         => /\ current_file_path \in Paths
            /\ last.saved /\ last.io = "none"
            /\ disk[current_file_path] = text
            /\ ~modified /\ ~windowModified
            /\ proc = "Starting"
    /\ "warning_cannot_run" \notin Range(last.boxes)

\* C16: run on an edited document without a path asked for a file name,
\* wrote the text to b.py and started the interpreter.
C16_Witness ==
    /\ last.op = "run" /\ last.proceeded
    /\ last.asked = <<"SaveFile">>
    /\ current_file_path = "b.py" /\ text = "p" /\ disk["b.py"] = "p"
    /\ ~modified /\ proc = "Starting" /\ ~run_enabled

---------------------------------------------------------------------------
(* Properties of one highlightBlock call.                                  *)

\* C10: a block entered in state 1 or 2 whose text does not contain the
\* closing delimiter of that state is formatted as string from its first
\* to its last character and leaves in the state it was entered in, even
\* when it contains the other delimiter.
C10_NoCloserKeepsString ==
    (lres.done /\ lprev \in {1, 2} /\ find(ltext, DelimiterOf(lprev), 0) = -1)
        => /\ lres.state = lprev
           /\ lres.fmt = [i \in 1..Len(ltext) |-> string_format]

\* C10: a block entered inside ''' that holds an opener of the other kind
\* and a comment mark has been highlighted.
C10_Witness ==
    /\ lres.done /\ lprev = 1
    /\ ltext = <<"x">> \o DQ3 \o <<"#">>
    /\ lres.state = 1
    /\ lres.fmt = [i \in 1..5 |-> string_format]

---------------------------------------------------------------------------
(* What the multi-line pass is to do, said with sets of offsets: the       *)
(* triple-quoted strings of a text from an offset on, each the lowest      *)
(* opener not inside an earlier one, closed by the lowest closer of its    *)
(* kind that starts at least three characters after it.                    *)

Lowest(S) == IF S = {} THEN -1 ELSE CHOOSE p \in S : \A q \in S : p <= q

Highest(S) == CHOOSE p \in S : \A q \in S : q <= p

OpenersFrom(t, pos) ==
    { p \in pos..(Len(t) - 3) : HasAt(t, SQ3, p) \/ HasAt(t, DQ3, p) }

KindAt(t, p) == IF HasAt(t, SQ3, p) THEN 1 ELSE 2

ClosersFrom(t, kind, pos) ==
    { c \in pos..(Len(t) - 3) : HasAt(t, DelimiterOf(kind), c) }

RECURSIVE TripleStrings(_, _)
\* [open, close, kind] of every string; close = -1 for the unclosed one
TripleStrings(t, pos) ==
    LET open == Lowest(OpenersFrom(t, pos))
    IN  IF open = -1 THEN {}
        ELSE LET kind  == KindAt(t, open)
                 close == Lowest(ClosersFrom(t, kind, open + 3))
             IN  { [open |-> open, close |-> close, kind |-> kind] }
                 \cup (IF close = -1 THEN {} ELSE TripleStrings(t, close + 3))

\* the offsets a string covers
Covered(t, s) ==
    IF s.close = -1 THEN s.open..(Len(t) - 1) ELSE s.open..(s.close + 2)

Unclosed(S) == { s \in S : s.close = -1 }

\* the offsets the multi-line pass writes for incoming state prev
MultiLineCover(t, prev) ==
    IF prev > 0
    THEN LET e == Lowest(ClosersFrom(t, prev, 0))
         IN  IF e = -1 THEN 0..(Len(t) - 1)
             ELSE 0..(e + 2)
                  \cup UNION { Covered(t, s) : s \in TripleStrings(t, e + 3) }
    ELSE UNION { Covered(t, s) : s \in TripleStrings(t, 0) }

\* C11: a block entered in state 1 or 2 whose first closing delimiter of
\* that state starts at offset e is formatted as string on offsets 0..e+2
\* (e + 3 characters); its outgoing state is the one a scan of the text
\* after the closer, entered Clean, ends in, and past the closer it is
\* string exactly where that scan writes string, over the single-line
\* formats elsewhere.  So def''' and a space, entered inside ''', is string
\* up to and including the ''' and leaves Clean.
C11_CloserThenCleanScan ==
    /\ (lres.done /\ lprev = 1 /\ ltext = ScenarioB2)
        => /\ lres.state = 0
           /\ \A i \in 1..6 : lres.fmt[i] = string_format
           /\ lres.fmt[7] = NoFormat
    /\ (lres.done /\ lprev \in {1, 2}
       /\ ClosersFrom(ltext, lprev, 0) # {})
        => LET e      == Lowest(ClosersFrom(ltext, lprev, 0))
               rest   == SubSeq(ltext, e + 4, Len(ltext))
               scan   == ScanLoop(rest, ClearFormats(rest), 0, 0)
               single == SingleLineRules(ltext)
           IN  /\ \A i \in 1..(e + 3) : lres.fmt[i] = string_format
               /\ lres.state = scan.state
               /\ \A j \in 1..Len(rest) :
                     lres.fmt[e + 3 + j] =
                        IF scan.fmt[j] = string_format THEN string_format
                        ELSE single[e + 3 + j]

\* C11: a block entered inside ''' closes it at once and opens """ without
\* closing it: it leaves in state 2, all string.
C11_Witness ==
    /\ lres.done /\ lprev = 1
    /\ ltext = SQ3 \o DQ3 \o <<"x">>
    /\ lres.state = 2
    /\ lres.fmt = [i \in 1..7 |-> string_format]

\* C12: in a block entered Clean, each opener is the lowest ''' or """ at
\* or after the scan position; when an opener has no closer of its kind
\* starting at least 3 characters after it, the block is string from the
\* opener to its end and leaves in state 1 for ''' and 2 for """.
C12_UnclosedOpener ==
    (lres.done /\ lprev \in {-1, 0})
        => \A s \in Unclosed(TripleStrings(ltext, 0)) :
              /\ lres.state = s.kind
              /\ \A i \in (s.open + 1)..Len(ltext) :
                    lres.fmt[i] = string_format

\* C12: """ opens before ''' and is never closed: state 2, string from the
\* """ on, the x before it untouched.
C12_Witness ==
    /\ lres.done /\ lprev = 0
    /\ ltext = <<"x">> \o DQ3 \o SQ3 \o SQ3
    /\ lres.state = 2
    /\ lres.fmt = [i \in 1..10 |-> IF i = 1 THEN NoFormat ELSE string_format]

\* C13: a block entered Clean leaves Clean when it holds no triple-quote
\* delimiter and when every opener the scan finds is closed on the block;
\* every opener..closer+3 range is then string.
C13_ClosedStringsStayClean ==
    (lres.done /\ lprev \in {-1, 0}
       /\ Unclosed(TripleStrings(ltext, 0)) = {})
        => /\ lres.state = 0
           /\ \A s \in TripleStrings(ltext, 0) :
                 \A p \in Covered(ltext, s) : lres.fmt[p + 1] = string_format

\* C13: one block with two closed strings, '''a''' and """c""", and a b
\* between them that is not string.
C13_Witness ==
    /\ lres.done /\ lprev = 0
    /\ ltext = TwoStrings
    /\ lres.state = 0
    /\ \A i \in 1..7 : lres.fmt[i] = string_format
    /\ lres.fmt[9] = NoFormat
    /\ \A i \in 11..17 : lres.fmt[i] = string_format

\* the rules that can match in a text
Writers(t) ==
    { k \in 1..Len(highlighting_rules) :
         FirstChars(highlighting_rules[k]) \cap Range(t) # {} }

\* C14: every character has the format of the last write covering it, the
\* writes being those of the rules in the order of highlighting_rules and
\* then those of the multi-line pass; a character no write covers has no
\* format.
C14_LastWriteWins ==
    lres.done
        => LET writes == [k \in Writers(ltext) |->
                            MatchFrom(ClearFormats(ltext), ltext,
                                      highlighting_rules[k], 0)]
               multi  == MultiLineCover(ltext, lprev)
           IN  \A i \in 1..Len(ltext) :
                  LET ks == { k \in Writers(ltext) : writes[k][i] # NoFormat }
                  IN  lres.fmt[i] =
                         IF i - 1 \in multi THEN string_format
                         ELSE IF ks = {} THEN NoFormat
                         ELSE highlighting_rules[Highest(ks)].format

\* C14: def foo(x): has def as keyword and foo in the format of the call
\* and def-name rules.
C14_Witness ==
    /\ lres.done /\ lprev = 0
    /\ ltext = ScenarioC
    /\ lres.state = 0
    /\ lres.fmt = [i \in 1..11 |->
                     IF i <= 3 THEN keyword_format
                     ELSE IF i \in 5..7 THEN function_format
                     ELSE NoFormat]

---------------------------------------------------------------------------
(* The specifications: the main window (FairSpec adds the fairness of the  *)
(* process events), the document and its highlighter, one call of          *)
(* highlightBlock, the gutter.                                             *)

Spec       == Init /\ [][Next]_vars

\* the operating system starts the interpreter or reports that it cannot,
\* and a running interpreter exits or crashes
FairSpec ==
    /\ Spec
    /\ WF_vars(ProcessStarted \/ ProcessFailedToStart)
    /\ WF_vars(process_finished)

HLSpec     == HLInit /\ [][HLNext]_vars
LineSpec   == LineInit /\ [][LineNext]_vars
GutterSpec == GutterInit /\ [][GutterNext]_vars
=============================================================================
